---- MODULE Spec2Model ----
(***************************************************************************)
(* Model of scripts/research_bundle.py: one invocation of main() selects   *)
(* research documents by keyword hits and recency, copies them under       *)
(* flattened names into a timestamped bundle directory and writes          *)
(* manifest.json and index.md.                                             *)
(*                                                                         *)
(* Strings are sequences of one-character strings.  Times are whole        *)
(* seconds.  age_days and score are kept as exact integers: age_days is    *)
(* held in seconds (the code's value times 86400) and score is the code's  *)
(* value times 86400 * max(1, days), which is one positive factor for all  *)
(* candidates of a run, so every comparison the code makes is preserved.   *)
(***************************************************************************)
EXTENDS Integers, Sequences, FiniteSets, TLC

----------------------------------------------------------------------------
(* State.                                                                  *)

VARIABLES
  clock,        \* wall clock, in seconds
  research_ok,  \* the research directory exists and is a directory
  research,     \* the research tree: relative path -> entry
  out_root,     \* the output root directory exists
  bundles,      \* bundle directory name -> its files, manifest and index
  runs,         \* invocations started so far
  pc,           \* "idle", "copy" (main at lines 161-163) or "exited"
  args,         \* the parsed command line of the current invocation
  now,          \* line 104
  candidates,   \* the list built by lines 116-138
  ranked,       \* candidates after lines 141-144
  selected,     \* line 145
  bundle_dir,   \* line 158
  ncopied,      \* files the copy loop has copied
  exitcode,     \* exit status, once pc = "exited"
  stdout,       \* what the current invocation has printed to stdout
  earlier       \* the filesystem as the current invocation found it

vars == <<clock, research_ok, research, out_root, bundles, runs, pc, args, now,
          candidates, ranked, selected, bundle_dir, ncopied, exitcode, stdout,
          earlier>>

fsvars == <<research_ok, research>>

----------------------------------------------------------------------------
(* Generic helpers on sequences.                                           *)

Min(a, b) == IF a <= b THEN a ELSE b

Max(a, b) == IF a >= b THEN a ELSE b

Range(s) == {s[i] : i \in 1..Len(s)}

Rep(c, n) == [i \in 1..n |-> c]

Take(s, n) == SubSeq(s, 1, Min(n, Len(s)))

Drop(s, n) == SubSeq(s, n + 1, Len(s))

StartsWith(s, t) == Len(t) <= Len(s) /\ SubSeq(s, 1, Len(t)) = t

(* Position of the last occurrence of character c in s, 0 if none          *)
(* (str.rfind, 1-based).                                                   *)
RFind(s, c) ==
  LET hits == {i \in 1..Len(s) : s[i] = c}
  IN  IF hits = {} THEN 0 ELSE CHOOSE i \in hits : \A j \in hits : j <= i

----------------------------------------------------------------------------
(* Characters.                                                             *)

SEP == "/"

LowerOf(c) ==
  CASE c = "A" -> "a"
    [] c = "B" -> "b"
    [] c = "M" -> "m"
    [] c = "D" -> "d"
    [] c = "N" -> "n"
    [] OTHER -> c

(* str.lower() *)
Lower(s) == [i \in 1..Len(s) |-> LowerOf(s[i])]

(* Code points of the characters the model uses (ASCII). *)
Ord(c) ==
  CASE c = " " -> 32
    [] c = "," -> 44
    [] c = "-" -> 45
    [] c = "." -> 46
    [] c = "/" -> 47
    [] c = "A" -> 65
    [] c = "B" -> 66
    [] c = "D" -> 68
    [] c = "M" -> 77
    [] c = "N" -> 78
    [] c = "_" -> 95
    [] c = "a" -> 97
    [] c = "b" -> 98
    [] c = "d" -> 100
    [] c = "e" -> 101
    [] c = "l" -> 108
    [] c = "m" -> 109
    [] c = "n" -> 110
    [] c = "r" -> 114
    [] c = "t" -> 116
    [] c = "u" -> 117
    [] c = "x" -> 120
    [] OTHER -> 63

IsSpace(c) == c = " "

(* The class [a-zA-Z0-9._-] of the slug substitution. *)
IsSlugChar(c) ==
  \/ Ord(c) \in 97..122
  \/ Ord(c) \in 65..90
  \/ Ord(c) \in 48..57
  \/ c \in {".", "_", "-"}

(* Lexicographic order of two strings by code point (str.__lt__). *)
StrLess(s, t) ==
  LET diff == {i \in 1..Min(Len(s), Len(t)) : s[i] # t[i]}
  IN  IF diff = {} THEN Len(s) < Len(t)
      ELSE LET i == CHOOSE k \in diff : \A j \in diff : k <= j
           IN  Ord(s[i]) < Ord(t[i])

(* str.split(sep): the parts of s between occurrences of the character c. *)
RECURSIVE SplitOn(_, _)
SplitOn(s, c) ==
  LET hits == {i \in 1..Len(s) : s[i] = c}
  IN  IF hits = {} THEN <<s>>
      ELSE LET i == CHOOSE k \in hits : \A j \in hits : k <= j
           IN  <<SubSeq(s, 1, i - 1)>> \o SplitOn(Drop(s, i), c)

(* Order of two paths: pathlib compares the lists of path components. *)
RECURSIVE PartsLess(_, _)
PartsLess(ps, qs) ==
  IF qs = <<>> THEN FALSE
  ELSE IF ps = <<>> THEN TRUE
  ELSE IF Head(ps) # Head(qs) THEN StrLess(Head(ps), Head(qs))
  ELSE PartsLess(Tail(ps), Tail(qs))

PathLess(p, q) == PartsLess(SplitOn(p, SEP), SplitOn(q, SEP))

(* str.replace(c, t) for a one-character c. *)
RECURSIVE Replace(_, _, _)
Replace(s, c, t) ==
  IF Len(s) = 0 THEN <<>>
  ELSE IF Len(s) = 1 THEN (IF s[1] = c THEN t ELSE s)
  ELSE LET h == Len(s) \div 2
       IN  Replace(SubSeq(s, 1, h), c, t) \o Replace(Drop(s, h), c, t)

(* PurePath.name, .suffix and .stem *)
PathName(p) == Drop(p, RFind(p, SEP))

PathSuffix(p) ==
  LET name == PathName(p)
      i == RFind(name, ".")
  IN  IF 1 < i /\ i < Len(name) THEN Drop(name, i - 1) ELSE <<>>

PathStem(p) ==
  LET name == PathName(p)
      i == RFind(name, ".")
  IN  IF 1 < i /\ i < Len(name) THEN SubSeq(name, 1, i - 1) ELSE name

----------------------------------------------------------------------------
(* Program constants.                                                      *)

DAY == 86400

NameLimit == 180

StemLimit == 80

DigestLen == 10

SlugLimit == 60

HitWeight == 100

RecencyWeight == 10

EXIT_OK == 0

EXIT_NO_RESEARCH_DIR == 2

(* Exit status of the interpreter when main() raises. *)
EXIT_EXCEPTION == 1

----------------------------------------------------------------------------
(* Pure functions of the script.                                           *)

(* str.split(): the maximal runs of non-whitespace characters. *)
RECURSIVE SplitWs(_)
SplitWs(s) ==
  IF s = <<>> THEN <<>>
  ELSE IF IsSpace(Head(s)) THEN SplitWs(Tail(s))
  ELSE LET stops == {i \in 1..Len(s) : IsSpace(s[i])}
           n == IF stops = {} THEN Len(s)
                ELSE (CHOOSE i \in stops : \A j \in stops : i <= j) - 1
       IN  <<SubSeq(s, 1, n)>> \o SplitWs(Drop(s, n))

_tokenize_query(q) == SplitWs(q)

(* The patterns main() compiles: none for an empty query, the query itself *)
(* as one pattern in regex mode, otherwise one literal per token.  Queries *)
(* are drawn without regex metacharacters, so a regex pattern matches its  *)
(* own text; every pattern is matched case-insensitively.                  *)
BuildPatterns(query, regex) ==
  IF query = <<>> THEN <<>>
  ELSE IF regex THEN <<query>>
  ELSE _tokenize_query(query)

(* len(pat.findall(text)): non-overlapping matches, scanning left to right *)
RECURSIVE FindAllCount(_, _)
FindAllCount(pat, text) ==
  IF Len(text) < Len(pat) THEN 0
  ELSE IF StartsWith(Lower(text), Lower(pat))
       THEN 1 + FindAllCount(pat, Drop(text, Len(pat)))
       ELSE FindAllCount(pat, Tail(text))

RECURSIVE SumHits(_, _)
SumHits(patterns, text) ==
  IF patterns = <<>> THEN 0
  ELSE FindAllCount(Head(patterns), text) + SumHits(Tail(patterns), text)

(* A file of the research tree is a record                                 *)
(*   [is_file, mtime, readable, text].                                     *)
_count_hits(f, patterns) ==
  IF ~f.readable THEN 0 ELSE SumHits(patterns, f.text)

HexDigits == <<"0", "1", "2", "3", "4", "5", "6", "7",
               "8", "9", "a", "b", "c", "d", "e", "f">>

RECURSIVE Mix(_, _, _, _)
Mix(s, k, lo, hi) ==
  IF lo > hi THEN 0
  ELSE IF lo = hi THEN Ord(s[lo]) * (((lo * k) % 1021) + 1)
  ELSE LET h == (lo + hi) \div 2
       IN  (Mix(s, k, lo, h) + Mix(s, k, h + 1, hi)) % 1048576

(* hashlib.sha1(...).hexdigest()[:10]: ten hexadecimal digits computed     *)
(* from every character of the string and its position.  The digest        *)
(* function itself is library code, represented by a small mixing          *)
(* function.                                                               *)
Sha1Hex10(s) ==
  LET h1 == Mix(s, 31, 1, Len(s))
      h2 == Mix(s, 37, 1, Len(s))
      dig(h, i) == HexDigits[((h \div (IF i = 1 THEN 1 ELSE IF i = 2 THEN 16
                     ELSE IF i = 3 THEN 256 ELSE IF i = 4 THEN 4096
                     ELSE 65536)) % 16) + 1]
  IN  [i \in 1..DigestLen |-> IF i <= 5 THEN dig(h1, i) ELSE dig(h2, i - 5)]

(* str(rel) with separators and spaces replaced (lines 61-62). *)
Flatten(rel) == Replace(Replace(rel, SEP, <<"_", "_">>), " ", <<"_">>)

(* Variant: the digest taken over the file's contents. *)
SafeFlatNameByContent(rel) ==
  LET s == Flatten(rel)
  IN  IF Len(s) > NameLimit
      THEN Take(PathStem(s), StemLimit) \o <<"_", "_">>
             \o Sha1Hex10(research[rel].text) \o PathSuffix(s)
      ELSE s

_safe_flat_name(rel) ==
  LET s == Flatten(rel)
  IN  IF Len(s) > NameLimit
      THEN Take(PathStem(s), StemLimit) \o <<"_", "_">> \o Sha1Hex10(rel)
             \o PathSuffix(s)
      ELSE s

(* re.sub(r"[^a-zA-Z0-9._-]+", "-", s) *)
RECURSIVE SubNonSlug(_)
SubNonSlug(s) ==
  IF s = <<>> THEN <<>>
  ELSE IF IsSlugChar(Head(s)) THEN <<Head(s)>> \o SubNonSlug(Tail(s))
  ELSE LET keep == {i \in 1..Len(s) : IsSlugChar(s[i])}
           n == IF keep = {} THEN Len(s)
                ELSE (CHOOSE i \in keep : \A j \in keep : i <= j) - 1
       IN  <<"-">> \o SubNonSlug(Drop(s, n))

(* str.strip("-") *)
StripDash(s) ==
  LET keep == {i \in 1..Len(s) : s[i] # "-"}
  IN  IF keep = {} THEN <<>>
      ELSE SubSeq(s, CHOOSE i \in keep : \A j \in keep : i <= j,
                     CHOOSE i \in keep : \A j \in keep : j <= i)

BUNDLE == <<"b", "u", "n", "d", "l", "e">>

OrBundle(s) == IF s = <<>> THEN BUNDLE ELSE s

Slug(name, query) ==
  IF name # <<>> THEN OrBundle(StripDash(SubNonSlug(name)))
  ELSE IF query # <<>>
       THEN OrBundle(Take(StripDash(SubNonSlug(Lower(query))), SlugLimit))
  ELSE BUNDLE

(* exts: "." + e.strip().lstrip(".") for every non-blank item of the       *)
(* comma-separated list.                                                   *)
RECURSIVE LStrip(_, _)
LStrip(s, cs) ==
  IF s # <<>> /\ Head(s) \in cs THEN LStrip(Tail(s), cs) ELSE s

Reverse(s) == [i \in 1..Len(s) |-> s[Len(s) + 1 - i]]

Strip(s) == Reverse(LStrip(Reverse(LStrip(s, {" "})), {" "}))

ParseExts(ext) ==
  {<<".">> \o LStrip(Strip(e), {"."}) :
     e \in {x \in Range(SplitOn(ext, ",")) : Strip(x) # <<>>}}

(* Variant: the window clamped the way the recency divisor is. *)
CutoffClamped(t, days) == t - Max(1, days) * DAY

(* cutoff = now - days * 86400 *)
Cutoff(t, days) == t - days * DAY

(* A file older than the cutoff is skipped. *)
TooOld(mtime, cutoff) == mtime < cutoff

(* age_days = max(0.0, (now - mtime) / 86400.0), held in seconds. *)
AgeDays(t, mtime) == Max(0, t - mtime)

(* The factor that makes score an integer: 86400 * max(1, days). *)
ScoreUnit(days) == DAY * Max(1, days)

(* recency = max(0.0, 1.0 - age_days / max(1, days)), times ScoreUnit. *)
Recency(age, days) == Max(0, ScoreUnit(days) - age)

(* Variant: the two weights exchanged. *)
ScoreSwapped(hits, age, days) ==
  hits * RecencyWeight * ScoreUnit(days) + Recency(age, days) * HitWeight

(* score = hits * 100.0 + recency * 10.0, times ScoreUnit. *)
Score(hits, age, days) ==
  hits * HitWeight * ScoreUnit(days) + Recency(age, days) * RecencyWeight

----------------------------------------------------------------------------
(* Bounds and the sets the inputs are drawn from.                          *)

(* Invocations of the script in one behaviour. *)
MaxRuns == 2

(* Entries in the research tree. *)
MaxFiles == 2

(* Seconds the wall clock advances between invocations. *)
MaxTicks == 1

T0 == 10 * DAY

Str_md == <<".", "m", "d">>

PSpace == <<"r", "/", "a", " ", "b">> \o Str_md

PUnder == <<"r", "/", "a", "_", "b">> \o Str_md

PSub == <<"r", "/", "a", "/", "b">> \o Str_md

PUpperExt == <<"r", "/", "n", ".", "M", "D">>

(* A directory whose name carries an allowed extension. *)
PDir == <<"r", "/", "d">> \o Str_md

(* Flattens to exactly NameLimit characters. *)
PEdge == <<"r", "/">> \o Rep("x", NameLimit - 6) \o Str_md

(* Flattens to NameLimit + 1 characters. *)
PLong == <<"r", "/", "x", " ">> \o Rep("x", NameLimit - 7) \o Str_md

(* Flattens to the same text as PLong. *)
PLongUnder == <<"r", "/", "x", "_">> \o Rep("x", NameLimit - 7) \o Str_md

TextHits == <<"A", " ", "b", " ", "a">>

TextB == <<"b">>

QEmpty == <<>>

QBlank == <<" ">>

QTwo == <<"a", " ", "b">>

ExtDefault == <<"m", "d", ",", "m", "d", "x">>

ExtDotted == <<" ", ".", "M", "D", ",", ",", "t", "x", "t">>

NameGiven == <<"N", " ", "n">>

Dir == [is_file |-> FALSE, mtime |-> T0, readable |-> TRUE, text |-> <<>>]

FileAttrs(mtimes, readables, texts) ==
  [is_file : {TRUE}, mtime : mtimes, readable : readables, text : texts]

(* The research trees with at most n entries at the given paths. *)
Trees(paths, attrs, n) ==
  UNION {{f \in [S -> attrs \cup {Dir}] : \A p \in S : (f[p] = Dir) <=> (p = PDir)} :
           S \in {X \in SUBSET paths : Cardinality(X) <= n}}

ArgSets(queries, regexes, dayss, limits, names, exts) ==
  [query : queries, regex : regexes, days : dayss, limit : limits,
   name : names, ext : exts]

NoArgs == [query |-> <<>>, regex |-> FALSE, days |-> 0, limit |-> 0,
           name |-> <<>>, ext |-> <<>>]

NoDir == [ts |-> 0, slug |-> <<>>]

EmptyBundle == [files |-> <<>>, manifest |-> <<>>, index |-> <<>>]

InitWith(trees) ==
  /\ clock = T0
  /\ research_ok \in BOOLEAN
  /\ research \in trees
  /\ out_root = FALSE
  /\ bundles = <<>>
  /\ runs = 0
  /\ pc = "idle"
  /\ args = NoArgs
  /\ now = 0
  /\ candidates = <<>>
  /\ ranked = <<>>
  /\ selected = <<>>
  /\ bundle_dir = NoDir
  /\ ncopied = 0
  /\ exitcode = 0
  /\ stdout = <<>>
  /\ earlier = [research_ok |-> research_ok, out_root |-> FALSE, bundles |-> <<>>]

----------------------------------------------------------------------------
(* The steps of main().                                                    *)

(* sorted(research_dir.rglob("*")) *)
RECURSIVE SortedPaths(_)
SortedPaths(S) ==
  IF S = {} THEN <<>>
  ELSE LET p == CHOOSE x \in S : \A y \in S \ {x} : PathLess(x, y)
       IN  <<p>> \o SortedPaths(S \ {p})

(* Lines 119-125: the entry is a file, has an allowed extension and is not *)
(* older than the cutoff.                                                  *)
Admitted(tree, p, a, n) ==
  /\ tree[p].is_file
  /\ Lower(PathSuffix(p)) \in ParseExts(a.ext)
  /\ ~TooOld(tree[p].mtime, Cutoff(n, a.days))

(* Lines 126-138: the Candidate built for an admitted file. *)
MakeCandidate(tree, p, a, n, patterns) ==
  LET age == AgeDays(n, tree[p].mtime)
      hits == IF patterns # <<>> THEN _count_hits(tree[p], patterns) ELSE 0
  IN  [path |-> p, mtime |-> tree[p].mtime, age_days |-> age, hits |-> hits,
       score |-> Score(hits, age, a.days), out_name |-> _safe_flat_name(p)]

(* Lines 116-138. *)
Collect(tree, a, n, patterns) ==
  LET paths == SelectSeq(SortedPaths(DOMAIN tree),
                         LAMBDA p : Admitted(tree, p, a, n))
  IN  [i \in 1..Len(paths) |-> MakeCandidate(tree, paths[i], a, n, patterns)]

(* Lines 140-142. *)
DropZeroHits(cands, patterns) ==
  IF patterns # <<>> THEN SelectSeq(cands, LAMBDA c : c.hits > 0) ELSE cands

(* The sort key (c.score, c.mtime), compared as tuples. *)
KeyLess(a, b) == a.score < b.score \/ (a.score = b.score /\ a.mtime < b.mtime)

(* Variant: an ascending stable sort, reversed afterwards. *)
RECURSIVE SortAscReversed(_)
SortAscReversed(s) ==
  IF s = <<>> THEN <<>>
  ELSE LET done == SortAscReversed(SubSeq(s, 1, Len(s) - 1))
           x == s[Len(s)]
           k == Cardinality({i \in 1..Len(done) : KeyLess(x, done[i])})
       IN  SubSeq(done, 1, k) \o <<x>> \o SubSeq(done, k + 1, Len(done))

(* list.sort(key=..., reverse=True): descending and stable, so elements    *)
(* with equal keys keep their order.                                       *)
RECURSIVE SortDesc(_)
SortDesc(s) ==
  IF s = <<>> THEN <<>>
  ELSE LET done == SortDesc(SubSeq(s, 1, Len(s) - 1))
           x == s[Len(s)]
           k == Cardinality({i \in 1..Len(done) : ~KeyLess(done[i], x)})
       IN  SubSeq(done, 1, k) \o <<x>> \o SubSeq(done, k + 1, Len(done))

(* candidates[: max(0, args.limit)] *)
Truncate(cands, limit) == Take(cands, Max(0, limit))

BundleDirName(a) == [ts |-> clock, slug |-> Slug(a.name, a.query)]

(* Variant: the output root is created before the directory check. *)
AbortAfterMkdir(a) ==
  /\ ~research_ok
  /\ pc' = "exited"
  /\ exitcode' = EXIT_NO_RESEARCH_DIR
  /\ stdout' = <<>>
  /\ args' = a
  /\ now' = 0
  /\ candidates' = <<>>
  /\ ranked' = <<>>
  /\ selected' = <<>>
  /\ bundle_dir' = NoDir
  /\ ncopied' = 0
  /\ out_root' = TRUE
  /\ UNCHANGED bundles

(* Lines 98-100: the research directory is missing. *)
Abort(a) ==
  /\ ~research_ok
  /\ pc' = "exited"
  /\ exitcode' = EXIT_NO_RESEARCH_DIR
  /\ stdout' = <<>>
  /\ args' = a
  /\ now' = 0
  /\ candidates' = <<>>
  /\ ranked' = <<>>
  /\ selected' = <<>>
  /\ bundle_dir' = NoDir
  /\ ncopied' = 0
  /\ UNCHANGED <<out_root, bundles>>

(* Lines 102-159: select the files and create the bundle directory. *)
Prepare(a) ==
  /\ research_ok
  /\ LET patterns == BuildPatterns(a.query, a.regex)
         found == Collect(research, a, clock, patterns)
         sorted == SortDesc(DropZeroHits(found, patterns))
         dir == BundleDirName(a)
     IN  /\ now' = clock
         /\ candidates' = found
         /\ ranked' = sorted
         /\ selected' = Truncate(sorted, a.limit)
         /\ out_root' = TRUE
         /\ bundle_dir' = dir
         /\ bundles' = IF dir \in DOMAIN bundles THEN bundles
                       ELSE (dir :> EmptyBundle) @@ bundles
  /\ pc' = "copy"
  /\ args' = a
  /\ ncopied' = 0
  /\ stdout' = <<>>
  /\ UNCHANGED exitcode

(* One invocation starts: lines 83-159. *)
Invoke(a) ==
  /\ pc \in {"idle", "exited"}
  /\ runs' = runs + 1
  /\ earlier' = [research_ok |-> research_ok, out_root |-> out_root,
                  bundles |-> bundles]
  /\ (Abort(a) \/ Prepare(a))
  /\ UNCHANGED <<clock, fsvars>>

(* Lines 162-163, one turn of the loop: shutil.copy2 raises on a source    *)
(* it cannot read, and the exception ends the process.                     *)
CopyNext ==
  /\ pc = "copy"
  /\ ncopied < Len(selected)
  /\ LET c == selected[ncopied + 1]
         f == research[c.path]
     IN  IF f.readable
         THEN /\ bundles' = [bundles EXCEPT ![bundle_dir].files =
                    (c.out_name :> [source |-> c.path, text |-> f.text,
                                    mtime |-> f.mtime]) @@ @]
              /\ ncopied' = ncopied + 1
              /\ UNCHANGED <<pc, exitcode>>
         ELSE /\ pc' = "exited"
              /\ exitcode' = EXIT_EXCEPTION
              /\ UNCHANGED <<bundles, ncopied>>
  /\ UNCHANGED <<clock, fsvars, out_root, runs, args, now, candidates, ranked,
                 selected, bundle_dir, stdout, earlier>>

ManifestEntry(c) ==
  [relative |-> c.path, out |-> c.out_name, mtime |-> c.mtime,
   ageDays |-> c.age_days, hits |-> c.hits, score |-> c.score]

(* Lines 165-202: manifest.json, index.md, the printed path, exit 0. *)
WriteSummaries ==
  /\ pc = "copy"
  /\ ncopied = Len(selected)
  /\ bundles' = [bundles EXCEPT
       ![bundle_dir].manifest =
          <<[createdAt |-> clock, query |-> args.query, regex |-> args.regex,
             days |-> args.days, limit |-> args.limit,
             selected |-> [i \in 1..Len(selected) |-> ManifestEntry(selected[i])]]>>,
       ![bundle_dir].index =
          <<[slug |-> bundle_dir.slug, created |-> clock, query |-> args.query,
             window |-> args.days, files |-> Len(selected),
             lines |-> [i \in 1..Len(selected) |->
                          [out |-> selected[i].out_name,
                           rel |-> selected[i].path,
                           hits |-> selected[i].hits,
                           ageDays |-> selected[i].age_days]]]>>]
  /\ stdout' = <<bundle_dir>>
  /\ pc' = "exited"
  /\ exitcode' = EXIT_OK
  /\ UNCHANGED <<clock, fsvars, out_root, runs, args, now, candidates, ranked,
                 selected, bundle_dir, ncopied, earlier>>

(* A second passes between two invocations. *)
Tick ==
  /\ pc \in {"idle", "exited"}
  /\ clock < T0 + MaxTicks
  /\ clock' = clock + 1
  /\ UNCHANGED <<fsvars, out_root, bundles, runs, pc, args, now, candidates,
                 ranked, selected, bundle_dir, ncopied, exitcode, stdout, earlier>>

(* The research directory is removed between two invocations. *)
RemoveResearchDir ==
  /\ pc \in {"idle", "exited"}
  /\ research_ok
  /\ research_ok' = FALSE
  /\ UNCHANGED <<clock, research, out_root, bundles, runs, pc, args, now,
                 candidates, ranked, selected, bundle_dir, ncopied, exitcode,
                 stdout, earlier>>

(* A research file is rewritten between two invocations. *)
Rewrite(p, text) ==
  /\ pc = "exited"
  /\ p \in DOMAIN research
  /\ research[p].is_file
  /\ research[p].text # text
  /\ research' = [research EXCEPT ![p].text = text, ![p].mtime = clock]
  /\ UNCHANGED <<clock, research_ok, out_root, bundles, runs, pc, args, now,
                 candidates, ranked, selected, bundle_dir, ncopied, exitcode,
                 stdout, earlier>>

----------------------------------------------------------------------------
(* Specifications.                                                         *)

(* Several invocations against one output root. *)
MTimesFresh == {T0}

ArgsSeries ==
  ArgSets({QEmpty, QBlank}, {FALSE}, {2}, {0, 2}, {<<>>, NameGiven}, {ExtDefault})

Init ==
  InitWith(Trees({PSpace, PUnder, PSub, PDir},
                 FileAttrs(MTimesFresh, BOOLEAN, {TextHits}), MaxFiles))

Next ==
  \/ \E a \in ArgsSeries : runs < MaxRuns /\ Invoke(a)
  \/ CopyNext
  \/ WriteSummaries
  \/ Tick
  \/ RemoveResearchDir

Spec == Init /\ [][Next]_vars

(* One invocation, with the arguments and the files' attributes varied. *)
MTimesWide == {T0 - 2 * DAY - 1, T0 - DAY, T0, T0 + DAY}

ArgsWide ==
  ArgSets({QEmpty, QBlank, QTwo}, BOOLEAN, {-1, 0, 2}, {-1, 0, 1, 2}, {<<>>},
          {ExtDefault, ExtDotted})

InitSelect ==
  InitWith(Trees({PSpace, PUnder, PUpperExt, PDir},
                 FileAttrs(MTimesWide, {TRUE}, {TextHits, TextB}), MaxFiles))

NextSelect ==
  \/ \E a \in ArgsWide : runs = 0 /\ Invoke(a)
  \/ CopyNext
  \/ WriteSummaries

SpecSelect == InitSelect /\ [][NextSelect]_vars

(* Invocations over files whose flattened names are near NameLimit, the    *)
(* files being rewritten in between.                                       *)
ArgsNames ==
  ArgSets({QEmpty}, {FALSE}, {2}, {2}, {<<>>}, {ExtDefault})

InitNames ==
  InitWith(Trees({PEdge, PLong, PLongUnder},
                 FileAttrs(MTimesFresh, {TRUE}, {TextHits}), MaxFiles))

NextNames ==
  \/ \E a \in ArgsNames : runs < MaxRuns /\ Invoke(a)
  \/ CopyNext
  \/ WriteSummaries
  \/ Tick
  \/ \E p \in DOMAIN research : runs < MaxRuns /\ Rewrite(p, TextB)

SpecNames == InitNames /\ [][NextNames]_vars

----------------------------------------------------------------------------
(* Properties.                                                             *)

(* An invocation that passed the directory check is under way or over. *)
Started == pc \in {"copy", "exited"} /\ earlier.research_ok

(* The invocation ran to its last line. *)
Succeeded == Started /\ pc = "exited" /\ exitcode = EXIT_OK

Paths(cands) == {cands[i].path : i \in 1..Len(cands)}

Manifest == bundles[bundle_dir].manifest[1]

CopiedSources(d) == {bundles[d].files[n].source : n \in DOMAIN bundles[d].files}

(* C1: whenever the query is a non-empty string, every selected candidate  *)
(* has at least one hit.                                                   *)
C1_QueryMeansHits ==
  (Started /\ args.query # <<>>) =>
     \A i \in 1..Len(selected) : selected[i].hits > 0

(* C2: the output names of the selected candidates of one bundle are       *)
(* pairwise distinct.                                                      *)
C2_OutNamesDistinct ==
  Started =>
     \A i, j \in 1..Len(selected) :
        i # j => selected[i].out_name # selected[j].out_name

(* C3: with a valid research directory every invocation ends with status 0 *)
(* after copying every selected file and writing manifest.json and         *)
(* index.md, whether or not a file is unreadable.                          *)
C3_UnreadableNotFatal ==
  (Started /\ pc = "exited") =>
     /\ exitcode = EXIT_OK
     /\ ncopied = Len(selected)
     /\ bundles[bundle_dir].manifest # <<>>
     /\ bundles[bundle_dir].index # <<>>

(* C4: an invocation exits with status 2 exactly when the research         *)
(* directory is missing, and then it has created nothing, changed nothing  *)
(* and printed no bundle path; an invocation that printed the bundle path  *)
(* exits with status 0.                                                    *)
C4_MissingDirExit2 ==
  /\ (pc = "copy") => earlier.research_ok
  /\ (pc = "exited") =>
       /\ (exitcode = EXIT_NO_RESEARCH_DIR) <=> ~earlier.research_ok
       /\ ~earlier.research_ok =>
            /\ out_root = earlier.out_root
            /\ bundles = earlier.bundles
            /\ stdout = <<>>
       /\ (stdout # <<>>) => exitcode = EXIT_OK
       /\ (earlier.research_ok /\ ncopied = Len(selected)) => exitcode = EXIT_OK

(* C4 witness: an invocation found the research directory gone after an    *)
(* earlier one had written a bundle.                                       *)
C4_Witness ==
  /\ pc = "exited"
  /\ ~earlier.research_ok
  /\ exitcode = EXIT_NO_RESEARCH_DIR
  /\ \E d \in DOMAIN bundles : bundles[d].files # <<>> /\ bundles[d].manifest # <<>>

(* C5: every invocation creates a bundle directory no earlier invocation   *)
(* created, and leaves the earlier bundles as they were.                   *)
C5_FreshBundlePerRun ==
  Started =>
     /\ bundle_dir \notin DOMAIN earlier.bundles
     /\ \A d \in DOMAIN earlier.bundles : bundles[d] = earlier.bundles[d]

(* C6: a file whose age (now - mtime) / 86400 exceeds --days is no         *)
(* candidate, is not selected, is not copied and is not listed.            *)
C6_OldFilesExcluded ==
  Started =>
     \A p \in DOMAIN research :
        (now - research[p].mtime > args.days * DAY) =>
           /\ p \notin Paths(candidates)
           /\ p \notin Paths(ranked)
           /\ p \notin Paths(selected)
           /\ p \notin CopiedSources(bundle_dir)
           /\ Succeeded =>
                \A i \in 1..Len(Manifest.selected) : Manifest.selected[i].relative # p

(* C6 witness: a finished invocation that selected a file and left out     *)
(* another file, of an allowed extension, only for its age.                *)
C6_Witness ==
  /\ Succeeded
  /\ selected # <<>>
  /\ \E p \in DOMAIN research :
        /\ research[p].is_file
        /\ Lower(PathSuffix(p)) \in ParseExts(args.ext)
        /\ now - research[p].mtime > args.days * DAY
        /\ args.days <= 0

(* C7: a limit of zero or less gives an empty selection, no copy, an empty *)
(* selected list in the manifest and a bundle directory holding only       *)
(* manifest.json and index.md; a positive limit selects                    *)
(* min(limit, number of candidates) files.                                 *)
C7_LimitBoundsSelection ==
  Started =>
     /\ (args.limit <= 0) =>
          /\ selected = <<>>
          /\ ncopied = 0
          /\ Succeeded =>
               /\ Manifest.selected = <<>>
               /\ DOMAIN bundles[bundle_dir].files = {}
     /\ (args.limit > 0) => Len(selected) = Min(args.limit, Len(ranked))

(* C8: recency lies in [0,1]; a candidate with more hits is ranked before  *)
(* one with fewer, whatever their modification times; of two candidates    *)
(* with equal hits the one modified later is ranked first.                 *)
C8_HitsDominate ==
  Started =>
     /\ \A i \in 1..Len(candidates) :
          LET r == candidates[i].score
                     - candidates[i].hits * HitWeight * ScoreUnit(args.days)
          IN  0 <= r /\ r <= RecencyWeight * ScoreUnit(args.days)
     /\ \A i, j \in 1..Len(ranked) :
          /\ (ranked[i].hits > ranked[j].hits) => i < j
          /\ (ranked[i].hits = ranked[j].hits /\ ranked[i].mtime > ranked[j].mtime)
                => i < j

(* C8 witness: the candidate ranked first has more hits and an older       *)
(* modification time than the one ranked second.                           *)
C8_Witness ==
  /\ Succeeded
  /\ Len(ranked) >= 2
  /\ ranked[1].hits > ranked[2].hits
  /\ ranked[2].hits > 0
  /\ ranked[1].mtime < ranked[2].mtime

(* C10: candidates are enumerated in ascending path order, candidates with *)
(* equal (score, mtime) keep that order in the ranking, and the selection  *)
(* is the first entries of the ranking.                                    *)
C10_StableRanking ==
  Started =>
     /\ \A i, j \in 1..Len(candidates) :
          i < j => PathLess(candidates[i].path, candidates[j].path)
     /\ \A i, j \in 1..Len(ranked) :
          (i < j /\ ranked[i].score = ranked[j].score
                 /\ ranked[i].mtime = ranked[j].mtime)
             => PathLess(ranked[i].path, ranked[j].path)
     /\ Len(selected) <= Len(ranked)
     /\ \A i \in 1..Len(selected) : selected[i] = ranked[i]

(* C10 witness: two candidates tie on (score, mtime) and the limit keeps   *)
(* only the first of them.                                                 *)
C10_Witness ==
  /\ Succeeded
  /\ Len(ranked) = 2
  /\ ranked[1].score = ranked[2].score
  /\ ranked[1].mtime = ranked[2].mtime
  /\ ranked[1].hits > 0
  /\ Len(selected) = 1

(* C9: a candidate whose flattened name is longer than 180 characters is   *)
(* named <first 80 characters of the flattened stem>__<10 hex digits of    *)
(* the digest of its relative path><extension>, at most 92 characters plus *)
(* the extension; and one source path has one output name in every bundle, *)
(* whatever the file held when it was copied.                              *)
C9_LongNames ==
  /\ \A i \in 1..Len(candidates) :
       LET c == candidates[i]
           ext == PathSuffix(c.path)
       IN  Len(Flatten(c.path)) > NameLimit =>
             /\ c.out_name = Take(PathStem(Flatten(c.path)), StemLimit)
                               \o <<"_", "_">> \o Sha1Hex10(c.path) \o ext
             /\ Len(c.out_name) <= 92 + Len(ext)
             /\ Range(SubSeq(c.out_name, Len(c.out_name) - Len(ext) - DigestLen + 1,
                             Len(c.out_name) - Len(ext))) \subseteq Range(HexDigits)
  /\ \A d1, d2 \in DOMAIN bundles :
       \A n1 \in DOMAIN bundles[d1].files, n2 \in DOMAIN bundles[d2].files :
          bundles[d1].files[n1].source = bundles[d2].files[n2].source => n1 = n2

(* C9 witness: two bundles hold copies of one long-named source file with  *)
(* different contents, under a name of more than 80 characters.            *)
C9_Witness ==
  \E d1, d2 \in DOMAIN bundles :
     \E n \in DOMAIN bundles[d1].files \cap DOMAIN bundles[d2].files :
        /\ d1 # d2
        /\ bundles[d1].files[n].source = bundles[d2].files[n].source
        /\ bundles[d1].files[n].text # bundles[d2].files[n].text
        /\ Len(Flatten(bundles[d1].files[n].source)) > NameLimit
        /\ Len(n) > StemLimit

====
